---- MODULE Spec2Model ----
(***************************************************************************)
(* A model of the rust-hll HyperLogLog estimator: the four-variant storage *)
(* automaton (Empty, Explicit, Sparse, Dense), the bit engine behind the   *)
(* dense and sparse byte images, ingestion, union, cardinality and the v1  *)
(* wire format.                                                            *)
(*                                                                         *)
(* Representation choices:                                                 *)
(*  - u64/i64/u32/u8 values are naturals; the raw values drawn by the      *)
(*    model are below 2^(HighBit + 1), so no 64-bit operation wraps and    *)
(*    the i64 order of the explicit set is the order of the naturals.      *)
(*  - Option<T> is a sequence: << >> is None, <<t>> is Some(t).            *)
(*  - A byte buffer is a sequence of naturals in 0..255; byte idx of the   *)
(*    source is element idx + 1.                                           *)
(*  - BTreeSet<i64> is a finite set, BTreeMap<u32, u8> a function on a     *)
(*    finite set of keys; both are walked in ascending order.              *)
(*  - A panic (index out of bounds, failed assert) is the value Panic.     *)
(***************************************************************************)
EXTENDS Integers, Sequences, FiniteSets, TLC

\* ------------------------------------------------------------------------
\* Bounds of the model
\* ------------------------------------------------------------------------

\* the highest bit set in a raw value the model ingests
HighBit == 19

\* ------------------------------------------------------------------------
\* Integer and bit helpers
\* ------------------------------------------------------------------------

Pow2(n) == 2 ^ n

Min(a, b) == IF a < b THEN a ELSE b

Max(a, b) == IF a > b THEN a ELSE b

Shr(x, k) == x \div Pow2(k)

\* u8 << k, the bits shifted past bit 7 are lost
Shl8(x, k) == (x * Pow2(k)) % 256

Not8(x) == 255 - x

RECURSIVE BitAnd(_, _)
BitAnd(a, b) ==
    IF a = 0 \/ b = 0 THEN 0
    ELSE (a % 2) * (b % 2) + 2 * BitAnd(a \div 2, b \div 2)

RECURSIVE BitOr(_, _)
BitOr(a, b) ==
    IF a = 0 THEN b
    ELSE IF b = 0 THEN a
    ELSE Max(a % 2, b % 2) + 2 * BitOr(a \div 2, b \div 2)

RECURSIVE trailing_zeros(_)
trailing_zeros(x) == IF x % 2 = 1 THEN 0 ELSE 1 + trailing_zeros(x \div 2)

\* the elements of a finite set of naturals in ascending order
RECURSIVE SortedSeq(_)
SortedSeq(S) ==
    IF S = {} THEN << >>
    ELSE LET lo == CHOOSE x \in S : \A y \in S : x <= y
         IN  <<lo>> \o SortedSeq(S \ {lo})

\* the buffer left by an operation that panicked
Panic == <<-1>>

\* ------------------------------------------------------------------------
\* utils.rs: the bit engine
\* ------------------------------------------------------------------------

divide_by_8_round_up(i) == Shr(i, 3) + (IF BitAnd(i, 7) > 0 THEN 1 ELSE 0)

\* <<idx, pos>>
calc_position(reg_num, reg_width) ==
    LET addr == reg_num * reg_width
    IN  <<Shr(addr, 3), BitAnd(addr, 7)>>

\* TRUE when the field at (idx, pos) of n_bits bits touches a byte outside buf
field_out_of_bounds(buf, idx, pos, n_bits) ==
    IF pos + n_bits <= 8 THEN idx >= Len(buf) ELSE idx + 1 >= Len(buf)

write_u8_bits(buf, idx, pos, value, n_bits) ==
    IF pos + n_bits <= 8
    THEN LET mask_offset == 8 - (pos + n_bits)
             mask == (Pow2(n_bits) - 1) * Pow2(mask_offset)
             cleared == BitAnd(buf[idx + 1], Not8(mask % 256))
         IN  [buf EXCEPT ![idx + 1] = BitOr(cleared, Shl8(value, mask_offset))]
    ELSE LET n_bits_upper == 8 - pos
             n_bits_lower == n_bits - n_bits_upper
             mask_upper == Pow2(n_bits_upper) - 1
             mask_lower == Shr(255, n_bits_lower)
             upper_value == BitAnd(Shr(value, n_bits_lower), mask_upper)
             lower_value == Shl8(value, 8 - n_bits_lower)
         IN  [buf EXCEPT
                ![idx + 1] = BitOr(BitAnd(buf[idx + 1], Not8(mask_upper)), upper_value),
                ![idx + 2] = BitOr(BitAnd(buf[idx + 2], mask_lower), lower_value)]

read_u8_bits(buf, idx, pos, n_bits) ==
    IF pos + n_bits <= 8
    THEN LET mask == Pow2(n_bits) - 1
             mask_offset == 8 - (pos + n_bits)
         IN  BitAnd(Shr(buf[idx + 1], mask_offset), mask % 256)
    ELSE LET n_bits_upper == 8 - pos
             n_bits_lower == n_bits - n_bits_upper
             mask_upper == Pow2(n_bits_upper) - 1
             upper == Shl8(BitAnd(buf[idx + 1], mask_upper), n_bits_lower)
             lower == Shr(buf[idx + 2], 8 - n_bits_lower)
         IN  BitOr(upper, lower)

\* the four bytes of value, least significant first
to_le_bytes4(value) ==
    << value % 256, Shr(value, 8) % 256, Shr(value, 16) % 256, Shr(value, 24) % 256 >>

\* u32::to_be_bytes
to_be_bytes4(value) ==
    << Shr(value, 24) % 256, Shr(value, 16) % 256, Shr(value, 8) % 256, value % 256 >>

\* the loop of full bytes of write_bits, from value byte vidx (0-based) on
RECURSIVE write_bits_loop(_, _, _, _, _)
write_bits_loop(buf, idx, pos, value_bytes, vidx) ==
    IF vidx < 4
    THEN write_bits_loop(write_u8_bits(buf, idx, pos, value_bytes[vidx + 1], 8),
                         idx + 1, pos, value_bytes, vidx + 1)
    ELSE buf

\* For n_bits in 33..39 the index 4 - vbyte_cnt underflows: a build with
\* overflow checks panics on the subtraction, a build without them on
\* value_bytes[vidx].  No caller passes a wider field.
write_bits(buf, idx, pos, value, n_bits) ==
    IF n_bits = 0 \/ buf = Panic THEN buf
    ELSE IF divide_by_8_round_up(n_bits) > 4 /\ BitAnd(n_bits, 7) > 0 THEN Panic
    ELSE LET value_bytes == to_be_bytes4(value)
             vbyte_cnt == divide_by_8_round_up(n_bits)
             vidx == 4 - vbyte_cnt
             w_bits == BitAnd(n_bits, 7)
         IN  IF w_bits > 0
             THEN write_bits_loop(
                      write_u8_bits(buf, idx, pos, value_bytes[vidx + 1], w_bits),
                      IF w_bits + pos > 7 THEN idx + 1 ELSE idx,
                      BitAnd(w_bits + pos, 7), value_bytes, vidx + 1)
             ELSE write_bits_loop(buf, idx, pos, value_bytes, vidx)

\* the loop of full bytes of read_bits; acc is the u32 assembled so far
RECURSIVE read_bits_loop(_, _, _, _, _)
read_bits_loop(buf, idx, pos, acc, vidx) ==
    IF vidx < 4
    THEN read_bits_loop(buf, idx + 1, pos,
                        acc + read_u8_bits(buf, idx, pos, 8) * Pow2(8 * (3 - vidx)),
                        vidx + 1)
    ELSE acc

\* -1 stands for the panic on the index 4 - vbyte_cnt, as in write_bits
read_bits(buf, idx, pos, n_bits) ==
    IF divide_by_8_round_up(n_bits) > 4 /\ BitAnd(n_bits, 7) > 0 THEN -1 ELSE
    LET vbyte_cnt == divide_by_8_round_up(n_bits)
        vidx == 4 - vbyte_cnt
        r_bits == BitAnd(n_bits, 7)
    IN  IF r_bits > 0
        THEN read_bits_loop(buf,
                 IF r_bits + pos > 7 THEN idx + 1 ELSE idx,
                 BitAnd(r_bits + pos, 7),
                 read_u8_bits(buf, idx, pos, r_bits) * Pow2(8 * (3 - vidx)),
                 vidx + 1)
        ELSE read_bits_loop(buf, idx, pos, 0, vidx)

\* ------------------------------------------------------------------------
\* settings.rs
\* ------------------------------------------------------------------------

MINIMUM_LOG_2M_PARAM == 4
MAXIMUM_LOG_2M_PARAM == 31
MINIMUM_REG_WIDTH_PARAM == 1
MAXIMUM_REG_WIDTH_PARAM == 8
MAXIMUM_EXPTHRESH_PARAM == 18
MAXIMUM_EXPLICIT_THRESHOLD == Pow2(MAXIMUM_EXPTHRESH_PARAM - 1)
AUTO_EXPLICIT_THRESHOLD == -1

None == << >>
Some(x) == <<x>>
is_some(opt) == opt # << >>
unwrap(opt) == opt[1]

\* (a / b).log2() as u32: the largest k with b * 2^k <= a for a >= b > 0,
\* and 0 for a < b and for b = 0 (the cast of a negative, infinite or NaN
\* float is 0)
RECURSIVE floor_log2_ratio(_, _)
floor_log2_ratio(a, b) ==
    IF b > 0 /\ 2 * b <= a THEN 1 + floor_log2_ratio(a, 2 * b) ELSE 0

\* 1 << log_2m takes the shift modulo 32 where it does not panic
calculate_sparse_threshold(log_2m, reg_width) ==
    LET m == Pow2(log_2m % 32)
        short_word_length == log_2m + reg_width
        reg_bits == m * reg_width
        largest_pow2_less_than_cutoff == floor_log2_ratio(reg_bits, short_word_length)
    IN  Pow2(largest_pow2_less_than_cutoff)

calculate_explicit_threshold(log_2m, reg_width) ==
    LET m == Pow2(log_2m)
        full_representation_size == divide_by_8_round_up(reg_width * m)
        num_longs == full_representation_size \div 8
    IN  IF num_longs > MAXIMUM_EXPLICIT_THRESHOLD
        THEN MAXIMUM_EXPLICIT_THRESHOLD
        ELSE num_longs

\* The mask !((1 << shift) - 1) has exactly the bits shift..63 set; it is
\* held as its lowest set bit, shift.
pw_max_mask(reg_width) == ((Pow2(reg_width) - 1) - 1) % 64

m_bits_mask(log_2m) == Pow2(log_2m) - 1

validate(settings) ==
    IF ~(settings.log_2m \in MINIMUM_LOG_2M_PARAM..MAXIMUM_LOG_2M_PARAM)
    THEN "Log2m"
    ELSE IF ~(settings.reg_width \in MINIMUM_REG_WIDTH_PARAM..MAXIMUM_REG_WIDTH_PARAM)
    THEN "RegWidth"
    ELSE "Ok"

\* Settings::new; the result is [err |-> "Ok", settings |-> ...] or an error.
\* The cached derived fields (masks, estimator constants) are functions of
\* log_2m and reg_width and are the operators of this section.
Settings_new(log_2m, reg_width, explicit_threshold, sparse_enabled) ==
    LET settings ==
            [log_2m |-> log_2m,
             reg_width |-> reg_width,
             explicit_threshold |-> explicit_threshold,
             sparse_threshold |->
                 IF sparse_enabled
                 THEN Some(calculate_sparse_threshold(log_2m, reg_width))
                 ELSE None]
    IN  IF validate(settings) = "Ok"
        THEN [err |-> "Ok", settings |-> settings]
        ELSE [err |-> validate(settings)]

\* settings_check that compares log_2m only
settings_check_log_2m_only(self, other) ==
    IF self.log_2m = other.log_2m THEN "Ok" ELSE "MisMatch"

settings_check(self, other) ==
    IF self.log_2m = other.log_2m /\ self.reg_width = other.reg_width
    THEN "Ok"
    ELSE "MisMatch"

explicit_threshold(settings) ==
    IF settings.explicit_threshold = AUTO_EXPLICIT_THRESHOLD
    THEN calculate_explicit_threshold(settings.log_2m, settings.reg_width)
    ELSE settings.explicit_threshold

\* alpha_m_squared as the exact rational num / den * 2^shift, held as
\* <<num, den, shift>>; (0.7213 / (1 + 1.079 / m)) * m * m is
\* (7213 * m / (10000 * m + 10790)) * m * m
alpha_m_squared(log_2m) ==
    LET m == Pow2(log_2m)
    IN  CASE log_2m = 4 -> <<673, 1000, 2 * log_2m>>
          [] log_2m = 5 -> <<697, 1000, 2 * log_2m>>
          [] log_2m = 6 -> <<709, 1000, 2 * log_2m>>
          [] OTHER -> <<7213 * m, 10000 * m + 10790, 2 * log_2m>>

\* small_estimator_cutoff of 5m
small_estimator_cutoff_5m(m) == <<m * 5, 1>>

\* small_estimator_cutoff as the exact rational <<5m, 2>>
small_estimator_cutoff(m) == <<m * 5, 2>>

\* log2 of two_to_l
two_to_l_bits(log_2m, reg_width) ==
    LET max_register_value == Pow2(reg_width) - 1
        pw_bits == max_register_value - 1
    IN  pw_bits + log_2m

\* u32::BITS - leading_zeros(x) - 1 for x > 0: floor(log2(x))
RECURSIVE floor_log2(_)
floor_log2(x) == IF x <= 1 THEN 0 ELSE 1 + floor_log2(x \div 2)

pack_cutoff_byte(settings) ==
    LET threshold ==
            IF settings.explicit_threshold = AUTO_EXPLICIT_THRESHOLD THEN 63
            ELSE IF settings.explicit_threshold = 0 THEN 0
            ELSE floor_log2(settings.explicit_threshold)
        res == IF is_some(settings.sparse_threshold)
               THEN BitOr(threshold, Pow2(6))
               ELSE threshold
    IN  res % 256

\* 1_i32 << shift as a build without overflow checks computes it: the shift
\* amount is taken modulo 32 and bit 31 is the sign
wrapping_shl_i32(shift) ==
    IF shift % 32 = 31 THEN (-Pow2(30)) - Pow2(30) ELSE Pow2(shift % 32)

\* <<sparse_enabled, explicit_threshold>>
unpack_cutoff_byte(b) ==
    LET sparse_enabled == (Shr(b, 6) = 1)
        threshold == BitAnd(b, 63)
    IN  IF threshold = 0 THEN <<sparse_enabled, 0>>
        ELSE IF threshold = 63 THEN <<sparse_enabled, -1>>
        ELSE <<sparse_enabled, wrapping_shl_i32(threshold - 1)>>

\* the shift of unpack_cutoff_byte overflows: a build with overflow checks
\* panics on it
unpack_cutoff_byte_overflows(b) ==
    LET threshold == BitAnd(b, 63)
    IN  threshold \notin {0, 63} /\ threshold - 1 >= 32

\* an arithmetic operation of Settings::new overflows before validate is
\* reached: 1 << log_2m and m * reg_width (u32) of calculate_sparse_threshold,
\* ((1 << reg_width) - 1) - 1 of pw_max_mask and two_to_l, 1 << log_2m of
\* alpha_m_squared (i32) and of the small_estimator_cutoff argument (u32)
Settings_new_overflows(log_2m, reg_width, sparse_enabled) ==
    \/ sparse_enabled /\ log_2m >= 32
    \/ sparse_enabled /\ log_2m \in 24..31 /\ reg_width >= Pow2(32 - log_2m)
    \/ reg_width = 0
    \/ reg_width >= 32
    \/ log_2m >= 32

\* ------------------------------------------------------------------------
\* The Hll enum.  Every variant is the same record shape; the payload
\* fields of the other variants are empty.
\* ------------------------------------------------------------------------

EmptyMap == [k \in {} |-> 0]

Hll_Empty(settings) ==
    [tag |-> "Empty", settings |-> settings, ebuf |-> {}, sbuf |-> EmptyMap, dbuf |-> << >>]

Hll_Explicit(settings, buf) ==
    [tag |-> "Explicit", settings |-> settings, ebuf |-> buf, sbuf |-> EmptyMap, dbuf |-> << >>]

Hll_Sparse(settings, buf) ==
    [tag |-> "Sparse", settings |-> settings, ebuf |-> {}, sbuf |-> buf, dbuf |-> << >>]

Hll_Dense(settings, buf) ==
    [tag |-> "Dense", settings |-> settings, ebuf |-> {}, sbuf |-> EmptyMap, dbuf |-> buf]

Hll_new(settings) == Hll_Empty(settings)

\* ------------------------------------------------------------------------
\* lib.rs: Registers::set, the register and value a raw value is routed to
\* ------------------------------------------------------------------------

\* (x | mask).trailing_zeros() for x # 0 and the mask whose lowest set bit
\* is mask_shift
or_trailing_zeros(x, mask_shift) == Min(trailing_zeros(x), mask_shift)

\* set without the early return on a substream value of 0
Registers_set_no_zero_check(settings, value) ==
    LET substream_value == Shr(value, settings.log_2m)
        zeros == IF substream_value = 0
                 THEN pw_max_mask(settings.reg_width)
                 ELSE or_trailing_zeros(substream_value, pw_max_mask(settings.reg_width))
    IN  Some(<<BitAnd(value, m_bits_mask(settings.log_2m)), (1 + zeros) % 256>>)

\* None when the substream value is 0, otherwise Some(<<i, p_w>>)
Registers_set(settings, value) ==
    LET substream_value == Shr(value, settings.log_2m)
    IN  IF substream_value = 0 THEN None
        ELSE LET p_w == (1 + or_trailing_zeros(substream_value,
                                               pw_max_mask(settings.reg_width))) % 256
                 i == BitAnd(value, m_bits_mask(settings.log_2m))
             IN  Some(<<i, p_w>>)

\* ------------------------------------------------------------------------
\* sparse.rs
\* ------------------------------------------------------------------------

map_insert(buf, key, value) ==
    [k \in (DOMAIN buf) \cup {key} |-> IF k = key THEN value ELSE buf[k]]

Sparse_set_if_greater(settings, buf, reg_num, value) ==
    LET masked == BitAnd(value, m_bits_mask(settings.log_2m) % 256)
    IN  IF reg_num \notin DOMAIN buf
        THEN map_insert(buf, reg_num, masked)
        ELSE IF buf[reg_num] < masked
        THEN map_insert(buf, reg_num, masked)
        ELSE buf

Sparse_set(settings, buf, value) ==
    LET t == Registers_set(settings, value)
    IN  IF is_some(t)
        THEN Sparse_set_if_greater(settings, buf, unwrap(t)[1], unwrap(t)[2])
        ELSE buf

Sparse_is_full(settings, buf) ==
    IF is_some(settings.sparse_threshold)
    THEN unwrap(settings.sparse_threshold) < Cardinality(DOMAIN buf)
    ELSE TRUE

\* union_sparse: other's entries in ascending key order
RECURSIVE Sparse_union_sparse_loop(_, _, _, _)
Sparse_union_sparse_loop(settings, buf, other_buf, keys) ==
    IF keys = << >> THEN buf
    ELSE Sparse_union_sparse_loop(settings,
             Sparse_set_if_greater(settings, buf, Head(keys), other_buf[Head(keys)]),
             other_buf, Tail(keys))

Sparse_union_sparse(settings, buf, other_buf) ==
    Sparse_union_sparse_loop(settings, buf, other_buf, SortedSeq(DOMAIN other_buf))

RECURSIVE Sparse_union_explicit_loop(_, _, _)
Sparse_union_explicit_loop(settings, buf, values) ==
    IF values = << >> THEN buf
    ELSE Sparse_union_explicit_loop(settings,
             Sparse_set(settings, buf, Head(values)), Tail(values))

Sparse_union_explicit(settings, buf, explicit_buf) ==
    Sparse_union_explicit_loop(settings, buf, SortedSeq(explicit_buf))

\* ------------------------------------------------------------------------
\* dense.rs.  An operation that indexes outside the buffer yields Panic.
\* ------------------------------------------------------------------------

Dense_with_settings(settings) ==
    LET cap == divide_by_8_round_up(Pow2(settings.log_2m) * settings.reg_width)
    IN  [i \in 1..cap |-> 0]

Dense_get(settings, buf, reg_num) ==
    LET p == calc_position(reg_num, settings.reg_width)
    IN  read_u8_bits(buf, p[1], p[2], settings.reg_width)

Dense_set_reg(settings, buf, reg_num, value) ==
    LET p == calc_position(reg_num, settings.reg_width)
    IN  IF buf = Panic \/ field_out_of_bounds(buf, p[1], p[2], settings.reg_width)
        THEN Panic
        ELSE write_u8_bits(buf, p[1], p[2], value, settings.reg_width)

\* set_if_greater without the comparison
Dense_set_if_greater_always(settings, buf, reg_num, value) ==
    LET p == calc_position(reg_num, settings.reg_width)
    IN  IF buf = Panic \/ field_out_of_bounds(buf, p[1], p[2], settings.reg_width)
        THEN Panic
        ELSE write_u8_bits(buf, p[1], p[2], value, settings.reg_width)

Dense_set_if_greater(settings, buf, reg_num, value) ==
    LET p == calc_position(reg_num, settings.reg_width)
    IN  IF buf = Panic \/ field_out_of_bounds(buf, p[1], p[2], settings.reg_width)
        THEN Panic
        ELSE LET register == read_u8_bits(buf, p[1], p[2], settings.reg_width)
             IN  IF value > register
                 THEN write_u8_bits(buf, p[1], p[2], value, settings.reg_width)
                 ELSE buf

Dense_set(settings, buf, value) ==
    LET t == Registers_set(settings, value)
    IN  IF is_some(t)
        THEN Dense_set_if_greater(settings, buf, unwrap(t)[1], unwrap(t)[2])
        ELSE buf

RECURSIVE Dense_union_explicit_loop(_, _, _)
Dense_union_explicit_loop(settings, buf, values) ==
    IF values = << >> \/ buf = Panic THEN buf
    ELSE Dense_union_explicit_loop(settings,
             Dense_set(settings, buf, Head(values)), Tail(values))

Dense_union_explicit(settings, buf, explicit_buf) ==
    Dense_union_explicit_loop(settings, buf, SortedSeq(explicit_buf))

RECURSIVE Dense_union_sparse_loop(_, _, _, _)
Dense_union_sparse_loop(settings, buf, sparse_buf, keys) ==
    IF keys = << >> \/ buf = Panic THEN buf
    ELSE Dense_union_sparse_loop(settings,
             Dense_set_if_greater(settings, buf, Head(keys), sparse_buf[Head(keys)]),
             sparse_buf, Tail(keys))

Dense_union_sparse(settings, buf, sparse_buf) ==
    Dense_union_sparse_loop(settings, buf, sparse_buf, SortedSeq(DOMAIN sparse_buf))

\* union_dense walks other.iter(): registers reg_num..reg_cnt-1 of other
RECURSIVE Dense_union_dense_loop(_, _, _, _, _)
Dense_union_dense_loop(settings, buf, other_settings, other_buf, reg_num) ==
    IF reg_num >= Pow2(other_settings.log_2m) \/ buf = Panic THEN buf
    ELSE Dense_union_dense_loop(settings,
             Dense_set_if_greater(settings, buf, reg_num,
                                  Dense_get(other_settings, other_buf, reg_num)),
             other_settings, other_buf, reg_num + 1)

Dense_union_dense(settings, buf, other_settings, other_buf) ==
    Dense_union_dense_loop(settings, buf, other_settings, other_buf, 0)

\* to_dense: a dense buffer for target_settings holding the sparse entries
RECURSIVE Sparse_to_dense_loop(_, _, _, _)
Sparse_to_dense_loop(target_settings, dense_buf, sparse_buf, keys) ==
    IF keys = << >> \/ dense_buf = Panic THEN dense_buf
    ELSE Sparse_to_dense_loop(target_settings,
             Dense_set_reg(target_settings, dense_buf, Head(keys), sparse_buf[Head(keys)]),
             sparse_buf, Tail(keys))

Sparse_to_dense(self_settings, buf, opt_settings) ==
    LET target == IF is_some(opt_settings) THEN unwrap(opt_settings) ELSE self_settings
    IN  Sparse_to_dense_loop(target, Dense_with_settings(target), buf,
                             SortedSeq(DOMAIN buf))

\* ------------------------------------------------------------------------
\* explicit.rs and lib.rs: the Hll automaton
\* ------------------------------------------------------------------------

Explicit_set(buf, value) == buf \cup {value}

\* union_explicit that replaces the set by the operand's
Explicit_union_explicit_replace(buf, other_buf) == other_buf

Explicit_union_explicit(buf, other_buf) == buf \cup other_buf

Explicit_len(buf) == Cardinality(buf)

\* is_full that lets one value too many in
Explicit_is_full_late(settings, buf) ==
    Cardinality(buf) > explicit_threshold(settings) + 1

Explicit_is_full(settings, buf) == Cardinality(buf) > explicit_threshold(settings)

Hll_is_full(self) ==
    CASE self.tag = "Empty" -> FALSE
      [] self.tag = "Explicit" -> Explicit_is_full(self.settings, self.ebuf)
      [] self.tag = "Sparse" -> Sparse_is_full(self.settings, self.sbuf)
      [] self.tag = "Dense" -> FALSE

RECURSIVE Hll_add_raw(_, _)
RECURSIVE Explicit_as_registers_loop(_, _)

\* the loop of as_registers: storage.add_raw(value) for each stored value
Explicit_as_registers_loop(storage, values) ==
    IF values = << >> THEN storage
    ELSE Explicit_as_registers_loop(Hll_add_raw(storage, Head(values)), Tail(values))

Explicit_as_registers(settings, buf) ==
    LET storage == IF is_some(settings.sparse_threshold)
                   THEN Hll_Sparse(settings, EmptyMap)
                   ELSE Hll_Dense(settings, Dense_with_settings(settings))
    IN  Explicit_as_registers_loop(storage, SortedSeq(buf))

\* add_raw without the early return on the value 0
Hll_add_raw_no_zero_check(self, value) ==
    LET settings == self.settings
        started ==
            IF self.tag = "Empty"
            THEN IF explicit_threshold(settings) > 0
                 THEN Hll_Explicit(settings, {})
                 ELSE IF is_some(settings.sparse_threshold)
                 THEN Hll_Sparse(settings, EmptyMap)
                 ELSE Hll_Dense(settings, Dense_with_settings(settings))
            ELSE self
    IN  CASE started.tag = "Explicit" ->
               LET buf == Explicit_set(started.ebuf, value)
               IN  IF Explicit_is_full(settings, buf)
                   THEN Explicit_as_registers(settings, buf)
                   ELSE Hll_Explicit(settings, buf)
          [] started.tag = "Sparse" ->
               LET buf == Sparse_set(settings, started.sbuf, value)
               IN  IF Sparse_is_full(settings, buf)
                   THEN Hll_Dense(settings, Sparse_to_dense(settings, buf, None))
                   ELSE Hll_Sparse(settings, buf)
          [] started.tag = "Dense" ->
               Hll_Dense(settings, Dense_set(settings, started.dbuf, value))

Hll_add_raw(self, value) ==
    IF value = 0 THEN self
    ELSE LET settings == self.settings
             started ==
                 IF self.tag = "Empty"
                 THEN IF explicit_threshold(settings) > 0
                      THEN Hll_Explicit(settings, {})
                      ELSE IF is_some(settings.sparse_threshold)
                      THEN Hll_Sparse(settings, EmptyMap)
                      ELSE Hll_Dense(settings, Dense_with_settings(settings))
                 ELSE self
         IN  CASE started.tag = "Explicit" ->
                    LET buf == Explicit_set(started.ebuf, value)
                    IN  IF Explicit_is_full(settings, buf)
                        THEN Explicit_as_registers(settings, buf)
                        ELSE Hll_Explicit(settings, buf)
               [] started.tag = "Sparse" ->
                    LET buf == Sparse_set(settings, started.sbuf, value)
                    IN  IF Sparse_is_full(settings, buf)
                        THEN Hll_Dense(settings, Sparse_to_dense(settings, buf, None))
                        ELSE Hll_Sparse(settings, buf)
               [] started.tag = "Dense" ->
                    Hll_Dense(settings, Dense_set(settings, started.dbuf, value))

Hll_upgrade(self) ==
    CASE self.tag = "Empty" -> self
      [] self.tag = "Explicit" -> Explicit_as_registers(self.settings, self.ebuf)
      [] self.tag = "Sparse" ->
            Hll_Dense(self.settings, Sparse_to_dense(self.settings, self.sbuf, None))
      [] self.tag = "Dense" -> self

Hll_settings(self) == self.settings

Hll_settings_check(self, other) == settings_check(Hll_settings(self), Hll_settings(other))

\* type_id that numbers the variants from 0
Hll_type_id_from_zero(self) ==
    CASE self.tag = "Empty" -> 0
      [] self.tag = "Explicit" -> 1
      [] self.tag = "Sparse" -> 2
      [] self.tag = "Dense" -> 3

Hll_type_id(self) ==
    CASE self.tag = "Empty" -> 1
      [] self.tag = "Explicit" -> 2
      [] self.tag = "Sparse" -> 3
      [] self.tag = "Dense" -> 4

\* Hll_Dense, or the panic carried by the buffer
DenseOrPanic(settings, buf) ==
    IF buf = Panic THEN [res |-> "Panic"] ELSE [res |-> "Ok", hll |-> Hll_Dense(settings, buf)]

Done(hll) == [res |-> "Ok", hll |-> hll]

\* The match of union, before the closing is_full check.  The result is
\* [res |-> "Ok", hll |-> the new self], [res |-> "MisMatch"] or
\* [res |-> "Panic"].
RECURSIVE Hll_union(_, _, _)

Hll_union_match(self, strict, other) ==
    IF self.tag = "Empty"
    THEN IF other.tag = "Sparse"
         THEN IF is_some(self.settings.sparse_threshold)
              THEN IF unwrap(self.settings.sparse_threshold) < Cardinality(DOMAIN other.sbuf)
                   THEN DenseOrPanic(self.settings,
                            Sparse_to_dense(other.settings, other.sbuf, Some(self.settings)))
                   ELSE Done(other)
              ELSE DenseOrPanic(self.settings,
                       Sparse_to_dense(other.settings, other.sbuf, Some(self.settings)))
         ELSE Done(other)
    ELSE IF self.tag = "Explicit"
    THEN CASE other.tag = "Empty" -> Done(self)
           [] other.tag = "Explicit" ->
                 Done(Hll_Explicit(self.settings,
                          Explicit_union_explicit(self.ebuf, other.ebuf)))
           [] other.tag \in {"Sparse", "Dense"} ->
                 Hll_union(Explicit_as_registers(self.settings, self.ebuf), strict, other)
    ELSE IF self.tag = "Sparse"
    THEN CASE other.tag = "Empty" -> Done(self)
           [] other.tag = "Explicit" ->
                 Done(Hll_Sparse(self.settings,
                          Sparse_union_explicit(self.settings, self.sbuf, other.ebuf)))
           [] other.tag = "Sparse" ->
                 Done(Hll_Sparse(self.settings,
                          Sparse_union_sparse(self.settings, self.sbuf, other.sbuf)))
           [] other.tag = "Dense" ->
                 DenseOrPanic(self.settings,
                     Dense_union_dense(self.settings,
                         Sparse_to_dense(self.settings, self.sbuf, None),
                         other.settings, other.dbuf))
    ELSE CASE other.tag = "Empty" -> Done(self)
           [] other.tag = "Explicit" ->
                 DenseOrPanic(self.settings,
                     Dense_union_explicit(self.settings, self.dbuf, other.ebuf))
           [] other.tag = "Sparse" ->
                 DenseOrPanic(self.settings,
                     Dense_union_sparse(self.settings, self.dbuf, other.sbuf))
           [] other.tag = "Dense" ->
                 DenseOrPanic(self.settings,
                     Dense_union_dense(self.settings, self.dbuf,
                                       other.settings, other.dbuf))

Hll_union(self, strict, other) ==
    IF strict /\ Hll_settings_check(self, other) # "Ok"
    THEN [res |-> "MisMatch"]
    ELSE LET r == Hll_union_match(self, strict, other)
         IN  IF r.res # "Ok" THEN r
             ELSE IF Hll_is_full(r.hll)
             THEN LET upgraded == Hll_upgrade(r.hll)
                  IN  IF upgraded.dbuf = Panic THEN [res |-> "Panic"] ELSE Done(upgraded)
             ELSE r

\* clear that goes back to Empty
Hll_clear_to_empty(self) == Hll_Empty(self.settings)

Hll_clear(self) ==
    CASE self.tag = "Empty" -> self
      [] self.tag = "Explicit" -> Hll_Explicit(self.settings, {})
      [] self.tag = "Sparse" -> Hll_Sparse(self.settings, EmptyMap)
      [] self.tag = "Dense" ->
            Hll_Dense(self.settings, [i \in 1..Len(self.dbuf) |-> 0])

\* ------------------------------------------------------------------------
\* lib.rs: cardinality.  The f64 arithmetic is carried out exactly: the
\* indicator sum is a dyadic number <<whole, bits>>, of value
\* whole + bits[1]/2 + bits[2]/4 + ..., alpha_msquared and the cutoffs are
\* rationals, and the comparisons are comparisons of exact numbers.
\* ------------------------------------------------------------------------

Pad(bits, n) ==
    IF Len(bits) >= n THEN bits ELSE bits \o [i \in 1..(n - Len(bits)) |-> 0]

\* a + b: position i takes a carry when a position below holds two ones
\* and every position between holds one
dy_add(a, b) ==
    LET n == Max(Len(a[2]), Len(b[2]))
        x == Pad(a[2], n)
        y == Pad(b[2], n)
        carry(i) == IF \E j \in (i + 1)..n :
                            /\ x[j] + y[j] = 2
                            /\ \A t \in (i + 1)..(j - 1) : x[t] + y[t] = 1
                    THEN 1 ELSE 0
    IN  <<a[1] + b[1] + carry(0),
          [i \in 1..n |-> (x[i] + y[i] + carry(i)) % 2] \o << >> >>

\* the number whose binary digits are bits[lo..hi], the highest first
RECURSIVE from_bits(_, _, _)
from_bits(bits, lo, hi) ==
    IF hi < lo THEN 0
    ELSE IF hi = lo THEN bits[lo]
    ELSE LET mid == (lo + hi) \div 2
         IN  from_bits(bits, lo, mid) * Pow2(hi - mid) + from_bits(bits, mid + 1, hi)

\* sum * 2^k for an integer k; to the right the low -k binary digits of
\* the whole go ahead of the bits
dy_scale(sum, k) ==
    IF k >= 0
    THEN LET bits == Pad(sum[2], k)
         IN  <<sum[1] * Pow2(k) + from_bits(bits, 1, k),
               SubSeq(bits, k + 1, Len(bits))>>
    ELSE <<IF -k > 30 THEN 0 ELSE sum[1] \div Pow2(-k),
           [i \in 1..(-k) |->
               IF -k - i > 30 THEN 0 ELSE (sum[1] \div Pow2(-k - i)) % 2] \o sum[2]>>

\* the order of r / b and 0.bits[i..] for 0 <= r < b: "lt", "eq" or "gt"
RECURSIVE frac_cmp_bits(_, _, _, _)
frac_cmp_bits(r, b, bits, i) ==
    IF i > Len(bits) THEN (IF r > 0 THEN "gt" ELSE "eq")
    ELSE IF (2 * r) \div b # bits[i]
    THEN (IF (2 * r) \div b < bits[i] THEN "lt" ELSE "gt")
    ELSE frac_cmp_bits((2 * r) % b, b, bits, i + 1)

\* a / b < sum for a >= 0 and b > 0
rat_lt_dy(a, b, sum) ==
    IF a \div b # sum[1] THEN a \div b < sum[1]
    ELSE frac_cmp_bits(a % b, b, sum[2], 1) = "lt"

\* sum < a / b for a >= 0 and b > 0
dy_lt_rat(sum, a, b) ==
    IF a \div b # sum[1] THEN sum[1] < a \div b
    ELSE frac_cmp_bits(a % b, b, sum[2], 1) = "gt"

\* the sum of hist[v] / 2^v over the register values v of `values`: the
\* terms 1.0 / ((1_u64 << v) as f64) of the loop, taken value by value
RECURSIVE grouped_sum(_, _)
grouped_sum(hist, values) ==
    IF values = << >> THEN <<0, << >> >>
    ELSE dy_add(dy_scale(<<hist[Head(values)], << >> >>, -Head(values)),
                grouped_sum(hist, Tail(values)))

\* the sum over the entries of the buffer
Sparse_indicator_loop(buf) ==
    LET values == { buf[k] : k \in DOMAIN buf }
        hist == [v \in values |-> Cardinality({ k \in DOMAIN buf : buf[k] = v })]
    IN  grouped_sum(hist, SortedSeq(values))

\* indicator that counts the registers set where it should count the zeros
Sparse_indicator_counts_set(settings, buf) ==
    LET number_of_zeros == Pow2(settings.log_2m) - Cardinality(DOMAIN buf)
        sum == Sparse_indicator_loop(buf)
    IN  <<<<sum[1] + number_of_zeros, sum[2]>>, Cardinality(DOMAIN buf)>>

\* <<sum, number_of_zeros>>
Sparse_indicator(settings, buf) ==
    LET number_of_zeros == Pow2(settings.log_2m) - Cardinality(DOMAIN buf)
        sum == Sparse_indicator_loop(buf)
    IN  <<<<sum[1] + number_of_zeros, sum[2]>>, number_of_zeros>>

\* <<sum, number_of_zeros>> over the registers 0..num_reg-1
Dense_indicator(settings, buf) ==
    LET regs == 0..(Pow2(settings.log_2m) - 1)
        values == { Dense_get(settings, buf, i) : i \in regs }
        hist == [v \in values |->
                    Cardinality({ i \in regs : Dense_get(settings, buf, i) = v })]
    IN  <<grouped_sum(hist, SortedSeq(values)), IF 0 \in values THEN hist[0] ELSE 0>>

\* (m * (m / num_of_zeros).ln()).ceil() as u64, tabulated per log_2m by
\* num_of_zeros: for log_2m 4 and 5 over 1..m, for log_2m 11 over 2040..2048
small_estimator ==
    [log_2m \in {4, 5, 11} |->
        CASE log_2m = 4 ->
               <<45, 34, 27, 23, 19, 16, 14, 12, 10, 8, 6, 5, 4, 3, 2, 0>>
          [] log_2m = 5 ->
               <<111, 89, 76, 67, 60, 54, 49, 45, 41, 38, 35, 32, 29, 27, 25, 23,
                 21, 19, 17, 16, 14, 12, 11, 10, 8, 7, 6, 5, 4, 3, 2, 0>>
          [] log_2m = 11 ->
               [z \in 2040..2048 |->
                   <<9, 8, 7, 6, 5, 4, 3, 2, 0>>[z - 2039]]]

\* estimator < small_estimator_cutoff: alpha * cutoff[2] / cutoff[1] < sum,
\* the factor m of the cutoff taken into the power of two
estimator_lt_small_cutoff(settings, sum) ==
    LET alpha == alpha_m_squared(settings.log_2m)
        m == Pow2(settings.log_2m)
        cutoff == small_estimator_cutoff(m)
    IN  rat_lt_dy(alpha[1] * cutoff[2], alpha[2] * (cutoff[1] \div m),
                  dy_scale(sum, settings.log_2m - alpha[3]))

\* estimator <= large_estimator_cutoff = two_to_l / 30.0:
\* 30 * alpha <= two_to_l * sum
estimator_le_large_cutoff(settings, sum) ==
    LET alpha == alpha_m_squared(settings.log_2m)
        l == two_to_l_bits(settings.log_2m, settings.reg_width)
    IN  ~dy_lt_rat(dy_scale(sum, l - alpha[3]), 30 * alpha[1], alpha[2])

\* estimator <= c for c > 0: alpha / c <= sum
estimator_le(settings, sum, c) ==
    LET alpha == alpha_m_squared(settings.log_2m)
    IN  ~dy_lt_rat(sum, alpha[1] * Pow2(alpha[3]), alpha[2] * c)

\* the first power of two, from c on, that the estimator does not exceed
RECURSIVE estimator_pow2_above(_, _, _)
estimator_pow2_above(settings, sum, c) ==
    IF estimator_le(settings, sum, c) THEN c
    ELSE estimator_pow2_above(settings, sum, 2 * c)

\* the least c in lo+1..hi with estimator <= c, where lo < estimator <= hi
RECURSIVE estimator_ceil_between(_, _, _, _)
estimator_ceil_between(settings, sum, lo, hi) ==
    IF hi = lo + 1 THEN hi
    ELSE LET mid == (lo + hi) \div 2
         IN  IF estimator_le(settings, sum, mid)
             THEN estimator_ceil_between(settings, sum, lo, mid)
             ELSE estimator_ceil_between(settings, sum, mid, hi)

\* estimator.ceil() as u64
estimator_ceil(settings, sum) ==
    LET hi == estimator_pow2_above(settings, sum, 1)
    IN  estimator_ceil_between(settings, sum, hi \div 2, hi)

\* estimator > two_to_l: the logarithm of the large range correction is
\* taken of a negative number, the result is NaN and `NaN as u64` is 0
estimator_gt_two_to_l(settings, sum) ==
    LET alpha == alpha_m_squared(settings.log_2m)
        l == two_to_l_bits(settings.log_2m, settings.reg_width)
    IN  dy_lt_rat(dy_scale(sum, l - alpha[3]), alpha[1], alpha[2])

\* (-1.0 * two_to_l * (1.0 - (estimator / two_to_l)).ln()).ceil() as u64
\* where the logarithm is defined, tabulated for log_2m 4 and reg_width 2
\* (two_to_l = 64) by 8 * sum, which is an integer in 22..64 there
large_estimator ==
    [k \in 22..64 |->
        <<247, 177, 146, 127, 113, 103, 94, 87, 81, 76, 72, 68, 65, 62, 59, 56,
          54, 52, 50, 48, 47, 45, 44, 42, 41, 40, 39, 38, 37, 36, 35, 34, 33,
          32, 32, 31, 30, 30, 29, 28, 28, 27, 27>>[k - 21]]

Hll_cardinality(self) ==
    IF self.tag = "Empty" THEN 0
    ELSE IF self.tag = "Explicit" THEN Explicit_len(self.ebuf)
    ELSE LET ind == IF self.tag = "Sparse"
                    THEN Sparse_indicator(self.settings, self.sbuf)
                    ELSE Dense_indicator(self.settings, self.dbuf)
             sum == ind[1]
             num_of_zeros == ind[2]
         IN  IF num_of_zeros # 0 /\ estimator_lt_small_cutoff(self.settings, sum)
             THEN small_estimator[self.settings.log_2m][num_of_zeros]
             ELSE IF estimator_le_large_cutoff(self.settings, sum)
             THEN estimator_ceil(self.settings, sum)
             ELSE IF estimator_gt_two_to_l(self.settings, sum)
             THEN 0
             ELSE large_estimator[dy_scale(sum, 3)[1]]

\* ------------------------------------------------------------------------
\* The byte images: Storage::to_bytes / from_bytes of the three stores and
\* Hll::to_bytes / Hll::from_bytes
\* ------------------------------------------------------------------------

Zeros(n) == [i \in 1..n |-> 0]

\* the n low bytes of value, most significant first
RECURSIVE to_be_bytes(_, _)
to_be_bytes(value, n) ==
    IF n = 0 THEN << >> ELSE Append(to_be_bytes(value \div 256, n - 1), value % 256)

RECURSIVE from_be_bytes(_)
from_be_bytes(bytes) ==
    IF bytes = << >> THEN 0
    ELSE from_be_bytes(SubSeq(bytes, 1, Len(bytes) - 1)) * 256 + bytes[Len(bytes)]

Explicit_bytes_size(buf) == 8 * Cardinality(buf)

RECURSIVE Explicit_to_bytes_loop(_)
Explicit_to_bytes_loop(values) ==
    IF values = << >> THEN << >>
    ELSE to_be_bytes(Head(values), 8) \o Explicit_to_bytes_loop(Tail(values))

Explicit_to_bytes(buf) == Explicit_to_bytes_loop(SortedSeq(buf))

\* the set left by a from_bytes that panicked
PanicSet == {-1}

\* the set read from buf[idx..], or PanicSet when a slice of 8 bytes runs past
\* the end of the buffer
RECURSIVE Explicit_from_bytes_loop(_, _, _)
Explicit_from_bytes_loop(buf, idx, res) ==
    IF idx < Len(buf)
    THEN IF idx + 8 > Len(buf) THEN PanicSet
         ELSE Explicit_from_bytes_loop(buf, idx + 8,
                  res \cup {from_be_bytes(SubSeq(buf, idx + 1, idx + 8))})
    ELSE res

Explicit_from_bytes(buf) == Explicit_from_bytes_loop(buf, 0, {})

Sparse_bytes_size(settings, buf) ==
    divide_by_8_round_up((settings.log_2m + settings.reg_width) * Cardinality(DOMAIN buf))

\* entry i (0-based) of the key-ordered walk is written at short word i
RECURSIVE Sparse_to_bytes_loop(_, _, _, _, _)
Sparse_to_bytes_loop(settings, sparse_buf, keys, i, out) ==
    IF i >= Len(keys) THEN out
    ELSE LET bits_per_register == settings.log_2m + settings.reg_width
             p == calc_position(i, bits_per_register)
             reg_num == keys[i + 1]
             reg == sparse_buf[reg_num]
         IN  Sparse_to_bytes_loop(settings, sparse_buf, keys, i + 1,
                 write_bits(out, p[1], p[2],
                            BitOr(reg_num * Pow2(settings.reg_width), reg),
                            bits_per_register))

Sparse_to_bytes(settings, buf, out) ==
    Sparse_to_bytes_loop(settings, buf, SortedSeq(DOMAIN buf), 0, out)

RECURSIVE Sparse_from_bytes_loop(_, _, _, _, _)
Sparse_from_bytes_loop(settings, buf, offset, i, res) ==
    LET bits_per_register == settings.log_2m + settings.reg_width
        max_offset == Len(buf) * 8
        reg_mask == Pow2(settings.reg_width) - 1
    IN  IF offset + bits_per_register <= max_offset
        THEN LET p == calc_position(i, bits_per_register)
                 value == read_bits(buf, p[1], p[2], bits_per_register)
                 reg_value == BitAnd(value, reg_mask)
                 reg_num == Shr(value - reg_value, settings.reg_width)
             IN  IF value = -1 THEN Panic ELSE
                 Sparse_from_bytes_loop(settings, buf, offset + bits_per_register, i + 1,
                                        map_insert(res, reg_num, reg_value % 256))
        ELSE res

Sparse_from_bytes(settings, buf) == Sparse_from_bytes_loop(settings, buf, 0, 0, EmptyMap)

Dense_bytes_size(buf) == Len(buf)

Dense_from_bytes(settings, buf) ==
    LET res == Dense_with_settings(settings)
    IN  IF ~(Len(res) >= Len(buf)) THEN Panic
        ELSE [i \in 1..Len(res) |-> IF i <= Len(buf) THEN buf[i] ELSE res[i]]

Hll_to_bytes(self) ==
    LET settings == self.settings
        type_id == Hll_type_id(self)
        size == CASE self.tag = "Empty" -> 0
                  [] self.tag = "Explicit" -> Explicit_bytes_size(self.ebuf)
                  [] self.tag = "Sparse" -> Sparse_bytes_size(settings, self.sbuf)
                  [] self.tag = "Dense" -> Dense_bytes_size(self.dbuf)
        header == << BitOr(Pow2(4), type_id),
                     BitOr((settings.reg_width - 1) * Pow2(5), settings.log_2m) % 256,
                     pack_cutoff_byte(settings) >>
        payload == CASE self.tag = "Empty" -> << >>
                     [] self.tag = "Explicit" -> Explicit_to_bytes(self.ebuf)
                     [] self.tag = "Sparse" -> Sparse_to_bytes(settings, self.sbuf, Zeros(size))
                     [] self.tag = "Dense" -> self.dbuf
    IN  IF payload = Panic THEN Panic ELSE header \o payload

\* from_bytes that takes an unknown type nibble for Empty
Hll_from_bytes_any_type(buf) ==
    IF Len(buf) < 1 THEN [res |-> "Panic"]
    ELSE LET version == Shr(buf[1], 4)
             type_id == BitAnd(buf[1], 15)
         IN  IF version # 1 THEN [res |-> "Version"]
             ELSE IF Len(buf) < 3 THEN [res |-> "Panic"]
             ELSE LET reg_width == Shr(buf[2], 5) + 1
                      log_2m == BitAnd(buf[2], 31)
                      cutoff == unpack_cutoff_byte(buf[3])
                      made == Settings_new(log_2m, reg_width, cutoff[2], cutoff[1])
                      rest == SubSeq(buf, 4, Len(buf))
                  IN  IF made.err # "Ok" THEN [res |-> "Settings", err |-> made.err]
                      ELSE CASE type_id = 1 -> Done(Hll_Empty(made.settings))
                             [] type_id = 2 ->
                                   LET e == Explicit_from_bytes(rest)
                                   IN  IF e = PanicSet THEN [res |-> "Panic"]
                                       ELSE Done(Hll_Explicit(made.settings, e))
                             [] type_id = 3 ->
                                   LET s == Sparse_from_bytes(made.settings, rest)
                                   IN  IF s = Panic THEN [res |-> "Panic"]
                                       ELSE Done(Hll_Sparse(made.settings, s))
                             [] type_id = 4 ->
                                   DenseOrPanic(made.settings,
                                       Dense_from_bytes(made.settings, rest))
                             [] OTHER -> Done(Hll_Empty(made.settings))

\* [res |-> "Ok", hll |-> ...], [res |-> "Version"], [res |-> "Settings",
\* err |-> ...] or [res |-> "Panic"]
Hll_from_bytes(buf) ==
    IF Len(buf) < 1 THEN [res |-> "Panic"]
    ELSE LET version == Shr(buf[1], 4)
             type_id == BitAnd(buf[1], 15)
         IN  IF version # 1 THEN [res |-> "Version"]
             ELSE IF Len(buf) < 3 THEN [res |-> "Panic"]
             ELSE LET reg_width == Shr(buf[2], 5) + 1
                      log_2m == BitAnd(buf[2], 31)
                      cutoff == unpack_cutoff_byte(buf[3])
                      made == Settings_new(log_2m, reg_width, cutoff[2], cutoff[1])
                      rest == SubSeq(buf, 4, Len(buf))
                  IN  IF made.err # "Ok" THEN [res |-> "Settings", err |-> made.err]
                      ELSE CASE type_id = 1 -> Done(Hll_Empty(made.settings))
                             [] type_id = 2 ->
                                   LET e == Explicit_from_bytes(rest)
                                   IN  IF e = PanicSet THEN [res |-> "Panic"]
                                       ELSE Done(Hll_Explicit(made.settings, e))
                             [] type_id = 3 ->
                                   LET s == Sparse_from_bytes(made.settings, rest)
                                   IN  IF s = Panic THEN [res |-> "Panic"]
                                       ELSE Done(Hll_Sparse(made.settings, s))
                             [] type_id = 4 ->
                                   DenseOrPanic(made.settings,
                                       Dense_from_bytes(made.settings, rest))
                             [] OTHER -> [res |-> "Version"]

\* ------------------------------------------------------------------------
\* The state machine: one Hll `h` driven through its public operations and
\* a second Hll `o`, built by add_raw, that serves as the operand of union.
\* ------------------------------------------------------------------------

\* <<log_2m, reg_width, explicit_threshold, sparse_enabled>> of the settings
\* the two Hlls are created with
SettingsParams ==
    { <<4, 5, -1, TRUE>>,
      <<4, 5, 2, FALSE>>,
      <<4, 1, 2, TRUE>>,
      <<4, 1, 0, TRUE>>,
      <<5, 1, 0, FALSE>> }

SettingsSet ==
    { Settings_new(p[1], p[2], p[3], p[4]).settings : p \in SettingsParams }

\* the raw values ingested: 0, two values whose substream is 0, and values
\* routed to registers 1, 2 and 3 (the last with p(w) = HighBit - 3 before
\* clamping when log_2m = 4)
Values == {0, 2, 3, 17, 34, Pow2(HighBit) + 3}

VARIABLES
    h,          \* the Hll under operation
    o,          \* the operand of union
    last,       \* the last call: [op, arg, strict, res]
    received    \* the non-zero values h took in while Empty or Explicit

vars == <<h, o, last, received>>

Call(op, arg, strict, res) == [op |-> op, arg |-> arg, strict |-> strict, res |-> res]

Init ==
    /\ h \in { Hll_new(s) : s \in SettingsSet }
    /\ o \in { Hll_new(s) : s \in SettingsSet }
    /\ last = Call("new", 0, FALSE, "Ok")
    /\ received = {}

Exact(hll) == hll.tag \in {"Empty", "Explicit"}

\* h.add_raw(v)
AddRaw(v) ==
    /\ last.res # "Panic"
    /\ LET next == Hll_add_raw(h, v)
       IN  IF next.dbuf = Panic
           THEN /\ last' = Call("add_raw", v, FALSE, "Panic")
                /\ UNCHANGED <<h, received>>
           ELSE /\ h' = next
                /\ last' = Call("add_raw", v, FALSE, "Ok")
                /\ received' = IF Exact(next) THEN received \cup ({v} \ {0}) ELSE {}
    /\ UNCHANGED o

\* o.add_raw(v)
AddRawOther(v) ==
    /\ last.res # "Panic"
    /\ LET next == Hll_add_raw(o, v)
       IN  IF next.dbuf = Panic
           THEN /\ last' = Call("add_raw_other", 0, FALSE, "Panic")
                /\ UNCHANGED o
           ELSE /\ o' = next
                /\ last' = Call("add_raw_other", 0, FALSE, "Ok")
    /\ UNCHANGED <<h, received>>

\* h.union(strict, &o)
Union(strict) ==
    /\ last.res # "Panic"
    /\ LET r == Hll_union(h, strict, o)
       IN  /\ last' = Call("union", 0, strict, r.res)
           /\ IF r.res = "Ok"
              THEN /\ h' = r.hll
                   /\ received' = IF Exact(r.hll)
                                  THEN received \cup o.ebuf
                                  ELSE {}
              ELSE UNCHANGED <<h, received>>
    /\ UNCHANGED o

\* h.clear()
Clear ==
    /\ last.res # "Panic"
    /\ h' = Hll_clear(h)
    /\ last' = Call("clear", 0, FALSE, "Ok")
    /\ received' = {}
    /\ UNCHANGED o

Next ==
    \/ \E v \in Values : AddRaw(v)
    \/ \E v \in Values : AddRawOther(v)
    \/ \E strict \in BOOLEAN : Union(strict)
    \/ Clear

Spec == Init /\ [][Next]_vars

TypeOK ==
    /\ h.tag \in {"Empty", "Explicit", "Sparse", "Dense"}
    /\ o.tag \in {"Empty", "Explicit", "Sparse", "Dense"}

\* ------------------------------------------------------------------------
\* Vocabulary of the properties
\* ------------------------------------------------------------------------

RegisterForm(hll) == hll.tag \in {"Sparse", "Dense"}

SameGeometry(a, b) == a.log_2m = b.log_2m /\ a.reg_width = b.reg_width

\* the stored values within their thresholds, stated on the storage itself
WithinThreshold(hll) ==
    /\ hll.tag = "Explicit" => Cardinality(hll.ebuf) <= explicit_threshold(hll.settings)
    /\ hll.tag = "Sparse" =>
          /\ is_some(hll.settings.sparse_threshold)
          /\ Cardinality(DOMAIN hll.sbuf) <= unwrap(hll.settings.sparse_threshold)

\* the register indices the values of an explicit set are routed to
RoutedRegisters(settings, values) ==
    { unwrap(Registers_set(settings, v))[1] :
        v \in { x \in values \ {0} : is_some(Registers_set(settings, x)) } }

\* the value of register i of an Hll in register form, 0 where a sparse
\* map has no entry
RegisterAt(hll, i) ==
    IF hll.tag = "Sparse"
    THEN IF i \in DOMAIN hll.sbuf THEN hll.sbuf[i] ELSE 0
    ELSE IF hll.tag = "Dense" THEN Dense_get(hll.settings, hll.dbuf, i)
    ELSE 0

RegisterIndices(hll) == 0..(Pow2(hll.settings.log_2m) - 1)

\* the explicit values an Explicit call takes the set to
ExplicitAfter(pre, post_op, arg, other) ==
    IF post_op = "add_raw" THEN pre.ebuf \cup ({arg} \ {0})
    ELSE pre.ebuf \cup other.ebuf

OkCall(call) == call.op \in {"add_raw", "union"} /\ call.res = "Ok"

\* an add_raw or union of explicit values onto an Explicit h that takes the
\* set past explicit_threshold
ExplicitOverflow ==
    /\ OkCall(last')
    /\ h.tag = "Explicit"
    /\ last'.op = "union" => o.tag = "Explicit"
    /\ Cardinality(ExplicitAfter(h, last'.op, last'.arg, o)) > explicit_threshold(h.settings)

\* an add_raw onto a Sparse h that leaves it Dense
SparseOverflow == last'.op = "add_raw" /\ last'.res = "Ok" /\ h.tag = "Sparse" /\ h'.tag # "Sparse"

\* ------------------------------------------------------------------------
\* C1
\* ------------------------------------------------------------------------

\* C1: after every add_raw and every successful union the Hll is within
\* its thresholds.  A call that takes an Explicit set past
\* explicit_threshold leaves h in register form: Dense when sparse is
\* disabled; when sparse is enabled, Sparse if the values are routed to at
\* most sparse_threshold registers and Dense otherwise.  An add_raw that
\* takes a Sparse map past sparse_threshold leaves h Dense.
C1_NeverFull ==
    [][ OkCall(last') =>
          /\ WithinThreshold(h')
          /\ ~Hll_is_full(h')
          /\ ExplicitOverflow =>
                LET regs == RoutedRegisters(h.settings,
                                ExplicitAfter(h, last'.op, last'.arg, o))
                    st == h.settings.sparse_threshold
                IN  /\ RegisterForm(h')
                    /\ h'.tag = "Sparse" <=>
                          (is_some(st) /\ Cardinality(regs) <= unwrap(st))
          /\ SparseOverflow => h'.tag = "Dense"
      ]_vars

\* C1 as stated: a call that exceeds the explicit threshold leaves h Sparse
\* whenever sparse is enabled, Dense otherwise
C1_OneVariantHigher ==
    [][ OkCall(last') =>
          /\ WithinThreshold(h')
          /\ ExplicitOverflow =>
                h'.tag = IF is_some(h.settings.sparse_threshold)
                         THEN "Sparse" ELSE "Dense"
          /\ SparseOverflow => h'.tag = "Dense"
      ]_vars

\* an add_raw has taken an Explicit h with sparse enabled and
\* explicit_threshold 2 to Dense with three registers set
C1_Witness ==
    /\ last.op = "add_raw" /\ last.res = "Ok"
    /\ h.tag = "Dense"
    /\ is_some(h.settings.sparse_threshold)
    /\ explicit_threshold(h.settings) = 2
    /\ Cardinality({ i \in RegisterIndices(h) : RegisterAt(h, i) # 0 }) = 3

\* ------------------------------------------------------------------------
\* C2
\* ------------------------------------------------------------------------

\* an add_raw onto an Empty h
FirstAdd == h.tag = "Empty" /\ last'.op = "add_raw" /\ last'.res = "Ok"

SmallRange(hll) ==
    LET ind == IF hll.tag = "Sparse"
               THEN Sparse_indicator(hll.settings, hll.sbuf)
               ELSE Dense_indicator(hll.settings, hll.dbuf)
    IN  ind[2] # 0 /\ estimator_lt_small_cutoff(hll.settings, ind[1])

C4_RoundTrip ==
    (last.op = "add_raw" /\ last.res = "Ok" /\ last.arg # 0) =>
        LET bytes == Hll_to_bytes(h)
            r == Hll_from_bytes(bytes)
        IN  /\ r.res = "Ok"
            /\ r.hll.tag = h.tag
            /\ Hll_to_bytes(r.hll) = bytes
            /\ h.tag = "Dense" => r.hll = h

\* ------------------------------------------------------------------------
\* C5
\* ------------------------------------------------------------------------

\* C5: a successful union leaves h.settings() as it was.
C5_SettingsKept ==
    [][ (last'.op = "union" /\ last'.res = "Ok") => Hll_settings(h') = Hll_settings(h) ]_vars

\* ------------------------------------------------------------------------
\* C6
\* ------------------------------------------------------------------------

\* the explicit values of a, or the value of every register of a, are
\* those of b
HoldsContentOf(a, b) ==
    /\ a.tag = "Explicit" <=> b.tag = "Explicit"
    /\ a.tag = "Empty" <=> b.tag = "Empty"
    /\ a.ebuf = b.ebuf
    /\ a.settings.log_2m = b.settings.log_2m
    /\ \A i \in RegisterIndices(b) : RegisterAt(a, i) = RegisterAt(b, i)

\* C6: for h left by an add_raw or a union and every Empty e of the
\* geometry of h, h.union(true, e) leaves h as it was and e.union(true, h)
\* leaves e with the content of h.
C6_EmptyIsIdentity ==
    OkCall(last) =>
        \A s \in SettingsSet :
            SameGeometry(s, h.settings) =>
                LET e == Hll_new(s)
                    into_h == Hll_union(h, TRUE, e)
                    into_e == Hll_union(e, TRUE, h)
                IN  /\ into_h.res = "Ok" /\ into_h.hll = h
                    /\ into_e.res = "Ok" /\ HoldsContentOf(into_e.hll, h)

\* ------------------------------------------------------------------------
\* C7
\* ------------------------------------------------------------------------

\* an Explicit set taken to registers, any other Hll as it is
Materialized(hll) ==
    IF hll.tag = "Explicit" THEN Explicit_as_registers(hll.settings, hll.ebuf) ELSE hll

SameContent(a, b) ==
    IF a.tag = "Explicit" /\ b.tag = "Explicit"
    THEN a.ebuf = b.ebuf
    ELSE \A i \in RegisterIndices(a) :
            RegisterAt(Materialized(a), i) = RegisterAt(Materialized(b), i)

\* C7: for h and o of one geometry, h.union(true, o) and o.union(true, h)
\* succeed and hold the same content.
C7_Commutative ==
    SameGeometry(h.settings, o.settings) =>
        LET ho == Hll_union(h, TRUE, o)
            oh == Hll_union(o, TRUE, h)
        IN  /\ ho.res = "Ok" /\ oh.res = "Ok"
            /\ SameContent(ho.hll, oh.hll)

\* ------------------------------------------------------------------------
\* C8
\* ------------------------------------------------------------------------

\* h.union(true, o) of two Hlls in register form and of one geometry
RegisterUnion ==
    /\ last'.op = "union" /\ last'.strict
    /\ RegisterForm(h) /\ RegisterForm(o)
    /\ SameGeometry(h.settings, o.settings)

C9_MismatchRejected ==
    [][ ( /\ last'.op = "union" /\ last'.strict
          /\ ~SameGeometry(h.settings, o.settings) )
        => last'.res = "MisMatch" /\ h' = h
      ]_vars

\* a strict union of a Dense h with a non-empty o of another reg_width was
\* rejected
C9_Witness ==
    /\ last.op = "union" /\ last.strict /\ last.res = "MisMatch"
    /\ h.tag = "Dense" /\ o.tag # "Empty"
    /\ h.settings.log_2m = o.settings.log_2m
    /\ h.settings.reg_width # o.settings.reg_width

\* ------------------------------------------------------------------------
\* C10
\* ------------------------------------------------------------------------

\* C10: while h is Explicit its cardinality is the number of distinct
\* non-zero values it received through add_raw and through union with
\* Explicit operands; the cardinality of an Empty h is 0.
C10_ExplicitExact ==
    /\ h.tag = "Explicit" => Hll_cardinality(h) = Cardinality(received)
    /\ h.tag = "Empty" => Hll_cardinality(h) = 0 /\ received = {}

\* an Explicit h holds values of its own and of an Explicit o after a union
C10_Witness ==
    /\ last.op = "union" /\ last.res = "Ok"
    /\ h.tag = "Explicit" /\ o.tag = "Explicit"
    /\ o.ebuf # {} /\ h.ebuf \ o.ebuf # {}
    /\ Hll_cardinality(h) = 2

\* ------------------------------------------------------------------------
\* C11
\* ------------------------------------------------------------------------

\* C11: after clear the cardinality of h is 0 and its settings and its
\* type_id are those it had before the call.
C11_ClearKeepsVariant ==
    [][ last'.op = "clear" =>
          /\ Hll_cardinality(h') = 0
          /\ Hll_settings(h') = Hll_settings(h)
          /\ Hll_type_id(h') = Hll_type_id(h)
      ]_vars

\* a Dense h has been cleared: every register is 0
C11_Witness ==
    /\ last.op = "clear"
    /\ h.tag = "Dense"
    /\ \A i \in RegisterIndices(h) : RegisterAt(h, i) = 0
    /\ Hll_cardinality(h) = 0

\* ------------------------------------------------------------------------
\* C12
\* ------------------------------------------------------------------------

\* C12: add_raw of a non-zero value takes an Empty h to Explicit when
\* explicit_threshold() > 0, otherwise to Sparse when sparse is enabled,
\* otherwise to Dense; add_raw(0) leaves h of any variant as it was.
C12_FirstVariant ==
    [][ (last'.op = "add_raw" /\ last'.res = "Ok") =>
          /\ last'.arg = 0 => h' = h
          /\ (last'.arg # 0 /\ h.tag = "Empty") =>
                h'.tag = IF explicit_threshold(h.settings) > 0 THEN "Explicit"
                         ELSE IF is_some(h.settings.sparse_threshold) THEN "Sparse"
                         ELSE "Dense"
      ]_vars

\* add_raw(0) has been applied to an Explicit h that holds a value
C12_Witness ==
    /\ last.op = "add_raw" /\ last.arg = 0
    /\ h.tag = "Explicit"
    /\ h.ebuf # {}

\* ------------------------------------------------------------------------
\* The codec: Hll::from_bytes applied to byte sequences, Hll::to_bytes
\* applied to what was decoded and to Hlls built directly, and from_bytes
\* applied to the bytes to_bytes gave.  `h` is the Hll at hand and `last`
\* the last call, its `arg` the bytes read or written.
\* ------------------------------------------------------------------------

\* from_bytes in a build with overflow checks panics where the decoding of
\* the header overflows
Hll_from_bytes_overflows(buf) ==
    /\ Len(buf) >= 3
    /\ Shr(buf[1], 4) = 1
    /\ \/ unpack_cutoff_byte_overflows(buf[3])
       \/ Settings_new_overflows(BitAnd(buf[2], 31), Shr(buf[2], 5) + 1,
                                 unpack_cutoff_byte(buf[3])[1])

\* the results from_bytes has over the builds
Hll_from_bytes_outcomes(buf) ==
    {Hll_from_bytes(buf)} \cup
        (IF Hll_from_bytes_overflows(buf) THEN {[res |-> "Panic"]} ELSE {})

\* byte 0: version and type nibbles 0/0, 1/0, 1/1 .. 1/5 and 2/1
Byte0s == {0, 16, 17, 18, 19, 20, 21, 33}

\* byte 1: (reg_width - 1, log_2m) = (0, 0), (0, 4) and (4, 4)
Byte1s == {0, 4, 132}

\* byte 2: codes 0, 1, 63; code 2 with bit 6; bit 7 alone; bits 7, 6 with
\* code 1; code 33
Byte2s == {0, 1, 63, 66, 128, 193, 33}

\* payloads of 0, 1, 2 and 8 bytes
Payloads == { << >>, <<0>>, <<17, 0>>, <<0, 0, 0, 0, 0, 0, 0, 17>> }

\* the inputs of from_bytes: sequences shorter than a header, and every
\* header followed by every payload
CodecInputs ==
    { << >>, <<17>>, <<33>>, <<17, 4>> } \cup
    { <<b0, b1, b2>> \o pl : b0 \in Byte0s, b1 \in Byte1s, b2 \in Byte2s, pl \in Payloads }

\* log_2m = 11, reg_width = 5, explicit_threshold = 0, sparse disabled
DenseTestSettings == Settings_new(11, 5, 0, FALSE).settings

\* the Hlls built directly
CodecHlls ==
    { Hll_Dense(DenseTestSettings, Dense_with_settings(DenseTestSettings)) } \cup
    { Hll_new(st) : st \in SettingsSet }

CodecInit ==
    /\ h \in CodecHlls
    /\ o = h
    /\ last = Call("new", << >>, FALSE, "Ok")
    /\ received = {}

\* the result tag that last.res holds for a result of from_bytes
ResultOf(r) == IF r.res = "Settings" THEN r.err ELSE r.res

Decode(buf) ==
    \E r \in Hll_from_bytes_outcomes(buf) :
        /\ last' = Call("from_bytes", buf, FALSE, ResultOf(r))
        /\ h' = IF r.res = "Ok" THEN r.hll ELSE h
        /\ UNCHANGED <<o, received>>

\* Hll::from_bytes(buf)
FromBytes(buf) ==
    /\ last.op = "new"
    /\ Decode(buf)

\* h.to_bytes()
ToBytes ==
    /\ last.res # "Panic"
    /\ last.op # "to_bytes"
    /\ last' = Call("to_bytes", Hll_to_bytes(h), FALSE, "Ok")
    /\ UNCHANGED <<h, o, received>>

\* Hll::from_bytes(&h.to_bytes())
Reload ==
    /\ last.op = "to_bytes"
    /\ Decode(last.arg)

CodecNext ==
    \/ \E buf \in CodecInputs : FromBytes(buf)
    \/ ToBytes
    \/ Reload

CodecSpec == CodecInit /\ [][CodecNext]_vars

\* the header fields of the bytes last read
VersionNibble(buf) == Shr(buf[1], 4)

TypeNibble(buf) == BitAnd(buf[1], 15)

\* ------------------------------------------------------------------------
\* C13
\* ------------------------------------------------------------------------

\* bytes 1 and 2 decode, without overflow, to settings Settings::new accepts
HeaderSettingsOk(buf) ==
    /\ ~Hll_from_bytes_overflows(buf)
    /\ validate([log_2m |-> BitAnd(buf[2], 31), reg_width |-> Shr(buf[2], 5) + 1]) = "Ok"

C14_NeverPanics ==
    last.op = "from_bytes" => last.res # "Panic"

\* ------------------------------------------------------------------------
\* The settings: Settings::new applied to its arguments, Hll::new on the
\* settings it returned and to_bytes of that Hll.  `last.arg` holds the
\* arguments <<log_2m, reg_width, explicit_threshold, sparse_enabled>>.
\* ------------------------------------------------------------------------

\* the results Settings::new has over the builds: a build with overflow
\* checks panics where the arithmetic ahead of validate overflows
Settings_new_outcomes(log_2m, reg_width, threshold, sparse_enabled) ==
    {Settings_new(log_2m, reg_width, threshold, sparse_enabled)} \cup
        (IF Settings_new_overflows(log_2m, reg_width, sparse_enabled)
         THEN {[err |-> "Panic"]} ELSE {})

Log2mInputs == {0, 3, 4, 11, 31, 32, 33}

RegWidthInputs == {0, 1, 5, 8, 9}

\* auto, disabled, the powers of two 1, 2, 2^17 and 2^18, and 3
ThresholdInputs == {-1, 0, 1, 2, 3, Pow2(17), Pow2(18)}

\* the arguments of Settings::new; log_2m = 31 goes with sparse disabled
SettingsInputs ==
    { p \in Log2mInputs \X RegWidthInputs \X ThresholdInputs \X BOOLEAN :
        p[1] = 31 => ~p[4] }

SettingsInit ==
    /\ h \in { Hll_new(st) : st \in SettingsSet }
    /\ o = h
    /\ last = Call("new", << >>, FALSE, "Ok")
    /\ received = {}

\* Settings::new(p) and, on Ok, Hll::new of the settings
SettingsNew(p) ==
    /\ last.op = "new"
    /\ \E r \in Settings_new_outcomes(p[1], p[2], p[3], p[4]) :
          /\ last' = Call("Settings::new", p, FALSE, r.err)
          /\ h' = IF r.err = "Ok" THEN Hll_new(r.settings) ELSE h
    /\ UNCHANGED <<o, received>>

SettingsNext ==
    \/ \E p \in SettingsInputs : SettingsNew(p)
    \/ ToBytes

SettingsSpec == SettingsInit /\ [][SettingsNext]_vars

\* ------------------------------------------------------------------------
\* C15
\* ------------------------------------------------------------------------

\* C15: Settings::new returns the Log2m error when log_2m is outside
\* 4..31, the RegWidth error when log_2m is inside and reg_width is outside
\* 1..8, and Ok otherwise: it returns in every case.
C15_SettingsNew ==
    last.op = "Settings::new" =>
        last.res = IF last.arg[1] \notin 4..31 THEN "Log2m"
                   ELSE IF last.arg[2] \notin 1..8 THEN "RegWidth"
                   ELSE "Ok"

\* ------------------------------------------------------------------------
\* C16
\* ------------------------------------------------------------------------

PowersOfTwo == { Pow2(k) : k \in 0..17 }

\* C16: bits 5:0 of the cutoff byte to_bytes writes are 0 for the
\* threshold 0, 63 for -1 and 1 + floor(log2(threshold)) otherwise, bit 6
\* is sparse_enabled, and unpack_cutoff_byte gives every power of two
\* threshold in 1..2^17 back.
C16_CutoffByte ==
    (last.op = "to_bytes" /\ h.settings.explicit_threshold >= -1) =>
        LET b == last.arg[3]
            t == h.settings.explicit_threshold
        IN  /\ BitAnd(b, 63) = IF t = 0 THEN 0
                               ELSE IF t = -1 THEN 63
                               ELSE 1 + floor_log2(t)
            /\ BitAnd(Shr(b, 6), 1) = IF is_some(h.settings.sparse_threshold) THEN 1 ELSE 0
            /\ t \in PowersOfTwo => unpack_cutoff_byte(b)[2] = t

\* ------------------------------------------------------------------------
\* C17
\* ------------------------------------------------------------------------

\* C17: for every input from_bytes accepts, byte 2 of the to_bytes of the
\* decoded Hll has the same bit 7 and the same bit 6 as byte 2 of the input.
C17_CutoffBitsKept ==
    (last.op = "from_bytes" /\ last.res = "Ok") =>
        Shr(Hll_to_bytes(h)[3], 6) = Shr(last.arg[3], 6)

\* ------------------------------------------------------------------------
\* C18
\* ------------------------------------------------------------------------

\* the Dense Hll of log_2m 11, reg_width 5, threshold 0, sparse disabled,
\* with every register 0
FreshDense(hll) ==
    /\ hll.tag = "Dense"
    /\ hll.settings = DenseTestSettings
    /\ hll.dbuf = Dense_with_settings(DenseTestSettings)

\* the image the statement describes, with byte 1 given
DenseImage(bytes, byte1) ==
    /\ Len(bytes) = 1283
    /\ \A i \in 4..Len(bytes) : bytes[i] = 0
    /\ bytes[1] = 20
    /\ bytes[2] = byte1
    /\ bytes[3] = 0

\* C18: to_bytes of a Dense Hll with log_2m 11, reg_width 5, threshold 0 and
\* sparse disabled to which no value was added is 1283 bytes, the payload
\* all zero and the header 0x14, 0x8B, 0x00.
C18_DenseImage ==
    (last.op = "to_bytes" /\ FreshDense(h)) => DenseImage(last.arg, 139)

\* C18 as stated: the header is 0x14, 0x9B, 0x00.
C18_Header9B ==
    (last.op = "to_bytes" /\ FreshDense(h)) => DenseImage(last.arg, 155)

C18_Witness ==
    /\ last.op = "to_bytes"
    /\ FreshDense(h)
    /\ Len(last.arg) = 1283
    /\ last.arg[2] = 139

\* ------------------------------------------------------------------------
\* The dense registers: set_if_greater and set_reg applied to a
\* DenseRegisters with any 8-bit value.  `h` is the Dense Hll that holds the registers and
\* `last.arg` is <<reg_num, value>>.
\* ------------------------------------------------------------------------

DenseRegWidths == {1, 5, 8}

DenseSettings == { Settings_new(4, rw, 0, FALSE).settings : rw \in DenseRegWidths }

\* the first registers, of which register 1 of width 5 lies across two
\* bytes, and the last register
DenseRegNums == {0, 1, 15}

DenseValues == {0, 1, 2, 31, 33, 255}

DenseInit ==
    /\ h \in { Hll_Dense(st, Dense_with_settings(st)) : st \in DenseSettings }
    /\ o = h
    /\ last = Call("new", << >>, FALSE, "Ok")
    /\ received = {}

DenseSetIfGreater(reg_num, value) ==
    LET buf == Dense_set_if_greater(h.settings, h.dbuf, reg_num, value)
    IN  /\ last.res # "Panic"
        /\ last' = Call("set_if_greater", <<reg_num, value>>, FALSE,
                        IF buf = Panic THEN "Panic" ELSE "Ok")
        /\ h' = IF buf = Panic THEN h ELSE [h EXCEPT !.dbuf = buf]
        /\ UNCHANGED <<o, received>>

DenseSetReg(reg_num, value) ==
    LET buf == Dense_set_reg(h.settings, h.dbuf, reg_num, value)
    IN  /\ last.res # "Panic"
        /\ last' = Call("set_reg", <<reg_num, value>>, FALSE,
                        IF buf = Panic THEN "Panic" ELSE "Ok")
        /\ h' = IF buf = Panic THEN h ELSE [h EXCEPT !.dbuf = buf]
        /\ UNCHANGED <<o, received>>

DenseNext ==
    \E reg_num \in DenseRegNums, value \in DenseValues :
        \/ DenseSetIfGreater(reg_num, value)
        \/ DenseSetReg(reg_num, value)

DenseSpec == DenseInit /\ [][DenseNext]_vars

\* ------------------------------------------------------------------------
\* C20
\* ------------------------------------------------------------------------

\* C20: after set_if_greater(i, v) on dense registers, for every 8-bit v,
\* get(i) is the larger of the prior get(i) and v masked to reg_width bits.
C20_SetIfGreater ==
    [][ last'.op = "set_if_greater" =>
          LET i == last'.arg[1]
              v == last'.arg[2]
              prior == Dense_get(h.settings, h.dbuf, i)
              masked == BitAnd(v, Pow2(h.settings.reg_width) - 1)
          IN  Dense_get(h'.settings, h'.dbuf, i) = IF prior > masked THEN prior ELSE masked
      ]_vars

\* ------------------------------------------------------------------------
\* The estimator: cardinality applied to Sparse and Dense Hlls whose
\* register contents are drawn from a bounded set.  `last.arg` holds the
\* value cardinality returned.
\* ------------------------------------------------------------------------

CardinalityRegWidths == {1, 2, 5}

\* the register values drawn, within the register width
CardinalityValues(reg_width) == {0, 1, 2, 3, 7, 31} \cap 0..(Pow2(reg_width) - 1)

\* the numbers of registers that hold the first of the two values drawn
CardinalityCounts == {0, 1, 2, 8, 15, 16}

RECURSIVE Dense_filled(_, _, _, _, _)
\* the dense buffer whose registers below k hold a and the others b
Dense_filled(settings, k, a, b, reg_num) ==
    IF reg_num = 0 THEN Dense_with_settings(settings)
    ELSE Dense_set_reg(settings, Dense_filled(settings, k, a, b, reg_num - 1),
                       reg_num - 1, IF reg_num - 1 < k THEN a ELSE b)

CardinalityDense ==
    { Hll_Dense(st, Dense_filled(st, k, a, b, Pow2(st.log_2m))) :
        <<st, k, a, b>> \in
            { q \in { Settings_new(4, rw, 0, FALSE).settings : rw \in CardinalityRegWidths }
                    \X CardinalityCounts \X CardinalityValues(8) \X CardinalityValues(8) :
                 {q[3], q[4]} \subseteq CardinalityValues(q[1].reg_width) } }

\* Sparse Hlls of up to sparse_threshold registers, all of one value
CardinalitySparse ==
    { Hll_Sparse(st, [i \in 0..(k - 1) |-> a]) :
        <<st, k, a>> \in
            { q \in { Settings_new(4, rw, 0, TRUE).settings : rw \in CardinalityRegWidths }
                    \X CardinalityCounts \X (CardinalityValues(8) \ {0}) :
                 /\ q[2] \in 1..unwrap(q[1].sparse_threshold)
                 /\ q[3] \in CardinalityValues(q[1].reg_width) } }

\* log_2m 11, reg_width 5 and one register that holds 31
OneRegister31 ==
    Hll_Dense(DenseTestSettings,
              Dense_set_reg(DenseTestSettings, Dense_with_settings(DenseTestSettings), 0, 31))

CardinalityInit ==
    /\ h \in CardinalityDense \cup CardinalitySparse \cup {OneRegister31}
    /\ o = h
    /\ last = Call("new", << >>, FALSE, "Ok")
    /\ received = {}

CardinalityCall ==
    /\ last.op = "new"
    /\ last' = Call("cardinality", Hll_cardinality(h), FALSE, "Ok")
    /\ UNCHANGED <<h, o, received>>

CardinalityNext == CardinalityCall

CardinalitySpec == CardinalityInit /\ [][CardinalityNext]_vars

\* ------------------------------------------------------------------------
\* C19
\* ------------------------------------------------------------------------

IndicatorOf(hll) ==
    IF hll.tag = "Sparse"
    THEN Sparse_indicator(hll.settings, hll.sbuf)
    ELSE Dense_indicator(hll.settings, hll.dbuf)

\* estimator < (a / b) * 2^k, where estimator = alpha_msquared / sum
EstimatorBelow(hll, a, b, k) ==
    LET alpha == alpha_m_squared(hll.settings.log_2m)
    IN  rat_lt_dy(alpha[1] * b, alpha[2] * a,
                  dy_scale(IndicatorOf(hll)[1], k - alpha[3]))

\* estimator <= (a / b) * 2^k
EstimatorAtMost(hll, a, b, k) ==
    LET alpha == alpha_m_squared(hll.settings.log_2m)
    IN  ~dy_lt_rat(dy_scale(IndicatorOf(hll)[1], k - alpha[3]),
                   alpha[1] * b, alpha[2] * a)

\* c = ceil(estimator): c - 1 < estimator <= c
IsCeilOfEstimator(hll, c) ==
    /\ c >= 1
    /\ estimator_le(hll.settings, IndicatorOf(hll)[1], c)
    /\ c > 1 => ~estimator_le(hll.settings, IndicatorOf(hll)[1], c - 1)

MaxDenseLog2m == 11

\* short words of 5, 9 and 33 bits
SparseSettings ==
    { Settings_new(p[1], p[2], 0, TRUE).settings : p \in { <<4, 1>>, <<4, 5>>, <<25, 8>> } }

SparseRegNums == {0, 1, 2}

\* the values other registers hand over in a union: 16 is the p(w) of a raw
\* value with 15 trailing zero bits above the index
SparseValues == {1, 2, 16, 31}

SparseInit ==
    /\ h \in { Hll_Sparse(st, EmptyMap) : st \in SparseSettings }
    /\ o = h
    /\ last = Call("new", << >>, FALSE, "Ok")
    /\ received = [max |-> EmptyMap, in_range |-> TRUE]

SparseSetIfGreater(reg_num, value) ==
    LET buf == Sparse_set_if_greater(h.settings, h.sbuf, reg_num, value)
        prior == IF reg_num \in DOMAIN received.max THEN received.max[reg_num] ELSE 0
    IN  /\ last.res # "Panic"
        /\ h' = [h EXCEPT !.sbuf = buf]
        /\ o' = h'
        /\ last' = Call("set_if_greater", <<reg_num, value>>, FALSE, "Ok")
        /\ received' = [max |-> map_insert(received.max, reg_num, Max(prior, value)),
                        in_range |-> received.in_range /\ value < Pow2(h.settings.reg_width)]

\* o = h.to_dense(None)
SparseToDense ==
    /\ last.op = "set_if_greater"
    /\ h.settings.log_2m <= MaxDenseLog2m
    /\ LET buf == Sparse_to_dense(h.settings, h.sbuf, None)
       IN  /\ o' = IF buf = Panic THEN o ELSE Hll_Dense(h.settings, buf)
           /\ last' = Call("to_dense", << >>, FALSE, IF buf = Panic THEN "Panic" ELSE "Ok")
    /\ UNCHANGED <<h, received>>

\* o = SparseRegisters::from_bytes(settings, bytes) for the bytes h.to_bytes
\* wrote into a zeroed buffer of h.bytes_size() bytes
SparseFromToBytes ==
    /\ last.op = "set_if_greater"
    /\ LET bytes == Sparse_to_bytes(h.settings, h.sbuf,
                                    Zeros(Sparse_bytes_size(h.settings, h.sbuf)))
           buf == IF bytes = Panic THEN Panic ELSE Sparse_from_bytes(h.settings, bytes)
       IN  /\ o' = IF buf = Panic THEN o ELSE Hll_Sparse(h.settings, buf)
           /\ last' = Call("from_bytes", bytes, FALSE, IF buf = Panic THEN "Panic" ELSE "Ok")
    /\ UNCHANGED <<h, received>>

SparseNext ==
    \/ \E reg_num \in SparseRegNums, value \in SparseValues :
           SparseSetIfGreater(reg_num, value)
    \/ SparseToDense
    \/ SparseFromToBytes

SparseSpec == SparseInit /\ [][SparseNext]_vars

\* ------------------------------------------------------------------------
\* C21
\* ------------------------------------------------------------------------

\* C21: sparse set_if_greater(i, v) masks v to its low reg_width bits,
\* inserts (i, masked v) where key i is absent and otherwise replaces the
\* stored value only when the masked v is strictly greater; so after calls
\* with values in 1 .. 2^reg_width - 1 only, the map holds for each touched
\* key the largest value given for it.
C21_SetIfGreater ==
    [][ last'.op = "set_if_greater" =>
          LET i == last'.arg[1]
              masked == BitAnd(last'.arg[2], Pow2(h.settings.reg_width) - 1)
          IN  /\ h'.sbuf = IF i \notin DOMAIN h.sbuf \/ h.sbuf[i] < masked
                           THEN map_insert(h.sbuf, i, masked)
                           ELSE h.sbuf
              /\ received'.in_range => h'.sbuf = received'.max
      ]_vars

\* ------------------------------------------------------------------------
\* C22
\* ------------------------------------------------------------------------

\* the number of trailing zero bits of x > 0, counted bit by bit
RECURSIVE TrailingZeroBits(_)
TrailingZeroBits(x) == IF x % 2 = 0 THEN 1 + TrailingZeroBits(x \div 2) ELSE 0

\* C22: add_raw(v) on an Hll in register form with (v >> log_2m) # 0 takes
\* register (v mod 2^log_2m) to the larger of its prior value and
\* p = min(1 + trailing zero bits of (v >> log_2m), 2^reg_width - 1) and
\* changes no other register; with (v >> log_2m) = 0 no register changes.
C22_Ingest ==
    [][ (RegisterForm(h) /\ last'.op = "add_raw" /\ last'.res = "Ok") =>
          LET v == last'.arg
              m == Pow2(h.settings.log_2m)
              p == Min(1 + TrailingZeroBits(v \div m), Pow2(h.settings.reg_width) - 1)
          IN  \A j \in RegisterIndices(h) :
                  RegisterAt(h', j) =
                      IF v \div m # 0 /\ j = v % m
                      THEN Max(RegisterAt(h, j), p)
                      ELSE RegisterAt(h, j)
      ]_vars

\* ------------------------------------------------------------------------
\* C23
\* ------------------------------------------------------------------------

\* C23: the DenseRegisters that to_dense(None) returns has get(i) equal to
\* the stored value for every key i of the sparse map and get(i) = 0 for
\* every other register index.
C23_ToDense ==
    (last.op = "to_dense" /\ last.res = "Ok") =>
        \A i \in RegisterIndices(h) :
            Dense_get(o.settings, o.dbuf, i) =
                IF i \in DOMAIN h.sbuf THEN h.sbuf[i] ELSE 0

\* ------------------------------------------------------------------------
\* C24
\* ------------------------------------------------------------------------

\* C24: from_bytes of the bytes to_bytes wrote into a zeroed buffer of
\* bytes_size() bytes has the register map of the SparseRegisters written,
\* or that map and an entry (0, 0) that was not in it.
C24_SparseRoundTrip ==
    last.op = "from_bytes" =>
        /\ last.res = "Ok"
        /\ \/ o.sbuf = h.sbuf
           \/ 0 \notin DOMAIN h.sbuf /\ o.sbuf = map_insert(h.sbuf, 0, 0)

\* ------------------------------------------------------------------------
\* C26
\* ------------------------------------------------------------------------

\* C26: for legal settings the short word (reg_num << reg_width) | reg_value
\* of a register value within reg_width bits is log_2m + reg_width <= 32
\* bits wide, and to_bytes / from_bytes carry every reg_num through.
C26_ShortWordFits ==
    (last.op = "from_bytes" /\ received.in_range) =>
        /\ h.settings.log_2m + h.settings.reg_width <= 32
        /\ last.res = "Ok"
        /\ DOMAIN h.sbuf \subseteq DOMAIN o.sbuf

\* ------------------------------------------------------------------------
\* C25
\* ------------------------------------------------------------------------

\* C25: once h is in register form, no add_raw and no successful union,
\* strict or not, the promotion from Sparse to Dense included, decreases
\* the value of a register.
C25_RegistersNeverDecrease ==
    [][ (RegisterForm(h) /\ last'.op \in {"add_raw", "union"} /\ last'.res = "Ok") =>
          \A i \in RegisterIndices(h) : RegisterAt(h', i) >= RegisterAt(h, i)
      ]_vars

\* ------------------------------------------------------------------------
\* The bit engine: write_bits applied once to a buffer.  `h` is the buffer,
\* `o` the buffer before the write and `last.arg` is
\* <<idx, pos, value, n_bits>>.
\* ------------------------------------------------------------------------

\* the length of the buffer: a field of 32 bits at bit 7 of byte 1 fits
BitsLen == 6

BitsBuffers == { [i \in 1..BitsLen |-> b] : b \in {0, 255} } \cup { <<165, 90, 60, 195, 15, 240>> }

BitsIdxs == {0, 1}

\* values of 1, 10, 20, 29 and 31 bits, held in a u32
BitsValues == {0, 1, 677, 703710, 305419896, 2147483647}

BitsInit ==
    /\ h \in BitsBuffers
    /\ o = h
    /\ last = Call("new", << >>, FALSE, "Ok")
    /\ received = {}

WriteBits(idx, pos, value, n_bits) ==
    /\ last.op = "new"
    /\ 8 * idx + pos + n_bits <= 8 * Len(h)
    /\ h' = write_bits(h, idx, pos, value, n_bits)
    /\ last' = Call("write_bits", <<idx, pos, value, n_bits>>, FALSE, "Ok")
    /\ UNCHANGED <<o, received>>

BitsNext ==
    \E idx \in BitsIdxs, pos \in 0..7, value \in BitsValues, n_bits \in 1..32 :
        WriteBits(idx, pos, value, n_bits)

BitsSpec == BitsInit /\ [][BitsNext]_vars

\* ------------------------------------------------------------------------
\* C27
\* ------------------------------------------------------------------------

\* bit b of the buffer, counting from the most significant bit of byte 0
BufferBit(buf, b) == (buf[(b \div 8) + 1] \div Pow2(7 - (b % 8))) % 2

\* value mod 2^n for a value below 2^31
ModPow2(value, n) == IF n >= 31 THEN value ELSE value % Pow2(n)

\* bit j of a value below 2^31, bit 0 the least significant
ValueBit(value, j) == IF j >= 31 THEN 0 ELSE (value \div Pow2(j)) % 2

\* C27: after write_bits(buf, idx, pos, value, n_bits) of a field that lies
\* inside the buffer, read_bits(buf, idx, pos, n_bits) is value mod 2^n_bits
\* and bit k of the field, the most significant first, is bit pos + k of
\* the buffer counted from the most significant bit of buf[idx].
C27_WriteThenRead ==
    last.op = "write_bits" =>
        LET idx == last.arg[1]
            pos == last.arg[2]
            field == ModPow2(last.arg[3], last.arg[4])
            n_bits == last.arg[4]
        IN  /\ read_bits(h, idx, pos, n_bits) = field
            /\ \A k \in 0..(n_bits - 1) :
                   BufferBit(h, 8 * idx + pos + k) = ValueBit(field, n_bits - 1 - k)

\* a field of 13 bits from bit 5 of byte 1, of a value wider than the field
C27_Witness ==
    /\ last.op = "write_bits"
    /\ last.arg = <<1, 5, 703710, 13>>
    /\ h # o
    /\ read_bits(h, 1, 5, 13) = 703710 % Pow2(13)

\* ------------------------------------------------------------------------
\* C28
\* ------------------------------------------------------------------------

\* C28: no add_raw, no union, successful or failing, and no clear decreases
\* type_id(); a Dense h stays Dense and an h that has left Empty never
\* comes back to it.
C28_TypeIdNeverDecreases ==
    [][ /\ Hll_type_id(h') >= Hll_type_id(h)
        /\ h.tag = "Dense" => h'.tag = "Dense"
        /\ h.tag # "Empty" => h'.tag # "Empty"
      ]_vars

\* a strict union with an operand of other settings has failed on a Dense h
C28_Witness ==
    /\ last.op = "union"
    /\ last.strict
    /\ last.res # "Ok"
    /\ h.tag = "Dense"
    /\ Hll_type_id(h) = 4

\* ------------------------------------------------------------------------
\* Ingestion alone: an Hll built by Hll::new and add_raw.  `received` is the
\* set of the values added so far.
\* ------------------------------------------------------------------------

\* sparse from the first value on, promoted to Dense past 8 registers; and
\* Explicit first, Sparse past 2 values, Dense past 2 registers
AddSettings ==
    { Settings_new(4, 5, 0, TRUE).settings, Settings_new(4, 1, 2, TRUE).settings }

\* one value for each of the registers 0 .. 8, of p(w) = 1, and a value for
\* register 8 whose p(w) has bit 4 set
AddValues == { 16 + i : i \in 0..8 } \cup { Pow2(HighBit) + 8 }

AddInit ==
    /\ h \in { Hll_new(st) : st \in AddSettings }
    /\ o = h
    /\ last = Call("new", 0, FALSE, "Ok")
    /\ received = {}

Add(v) ==
    /\ last.res # "Panic"
    /\ LET next == Hll_add_raw(h, v)
       IN  IF next.dbuf = Panic
           THEN /\ last' = Call("add_raw", v, FALSE, "Panic")
                /\ UNCHANGED <<h, received>>
           ELSE /\ h' = next
                /\ last' = Call("add_raw", v, FALSE, "Ok")
                /\ received' = received \cup {v}
    /\ UNCHANGED o

AddNext == \E v \in AddValues : Add(v)

AddSpec == AddInit /\ [][AddNext]_vars

\* ------------------------------------------------------------------------
\* C29
\* ------------------------------------------------------------------------

\* the Hll after add_raw of the values of a sequence, one after the other
RECURSIVE AddedAll(_, _)
AddedAll(hll, values) ==
    IF values = << >> THEN hll
    ELSE AddedAll(Hll_add_raw(hll, Head(values)), Tail(values))

\* C29: the Hll built from Hll::new(s) by add_raw is the same for every
\* order of the values (here: the one built in ascending order), and adding
\* a value a second time does not change it.
C29_OrderIndependent ==
    [][ last'.op = "add_raw" =>
          /\ last'.arg \in received => h' = h
          /\ h' = AddedAll(o, SortedSeq(received'))
      ]_vars

\* ------------------------------------------------------------------------
\* C30
\* ------------------------------------------------------------------------

\* C30: set_reg(i, v) and set_if_greater(i, v) on dense registers, for
\* every 8-bit v, leave get(j) as it was for every register j other than i.
C30_OtherRegistersKept ==
    [][ (last'.op \in {"set_reg", "set_if_greater"} /\ last'.res = "Ok") =>
          \A j \in RegisterIndices(h) \ {last'.arg[1]} :
              Dense_get(h'.settings, h'.dbuf, j) = Dense_get(h.settings, h.dbuf, j)
      ]_vars

====
